---- MODULE Spec2Model ----
(***************************************************************************)
(* Model of the RU-Snoozing backend bridge (backend/server.py): the        *)
(* POST /gemini handler, the GET /latest handler, the GET / handler and    *)
(* the process-wide latest_interaction slot.                               *)
(*                                                                         *)
(* Strings are sequences of characters over Alphabet, so that str.strip()  *)
(* is computed and not assumed.  The language model, the filesystem and    *)
(* the node child process are the environment: their outcomes are drawn    *)
(* from small sets at the point where the handler consults them.           *)
(***************************************************************************)
EXTENDS Integers, Sequences, FiniteSets, TLC

\* ---------------------------------------------------------------- bounds
MaxText == 2      \* longest submitted text, in characters
MaxReply == 1     \* longest raw reply of the language model, in characters
NumThreads == 2   \* concurrent requests of the threaded host

\* --------------------------------------------------------------- strings
Alphabet == {" ", "a"}

Strs(n) == UNION {[1..k -> Alphabet] : k \in 0..n}

\* Python's None and a key that a JSON body does not carry.  Neither is a
\* string over Alphabet, so neither equals the empty string <<>>.
None == <<"None">>
Absent == <<"absent">>

\* A one-token message (an error text, a captured stream).
Msg(s) == <<s>>

RECURSIVE lstrip(_)
lstrip(s) == IF s # <<>> /\ Head(s) = " " THEN lstrip(Tail(s)) ELSE s

RECURSIVE rstrip(_)
rstrip(s) == IF s # <<>> /\ s[Len(s)] = " " THEN rstrip(SubSeq(s, 1, Len(s) - 1)) ELSE s

\* str.strip()
strip(s) == rstrip(lstrip(s))

\* Python truthiness of an optional string: `not v`
Falsy(v) == v = None \/ v = <<>>

\* ----------------------------------------------------------- environment
tts_path == "/app/src/tts.js"

candidates == <<"/usr/local/bin/node", "/usr/bin/node", "/opt/homebrew/bin/node">>

AllPaths == {tts_path} \cup {candidates[i] : i \in 1..Len(candidates)}

NoNode == "None"
PathNode == "/home/user/.nvm/bin/node"

VARIABLES
  latest_interaction,  \* the module-level dict {"text", "response"}
  files,               \* the paths that exist on the filesystem
  which_node,          \* what shutil.which("node") returns
  exchange,            \* the HTTP exchange being answered (request, inputs consulted, response)
  served,              \* history: input/response of the most recent POST /gemini answered 200
  pc,                  \* threaded host: position of each request thread
  local,               \* threaded host: user_text / gemini_output of each thread
  returned,            \* threaded host: the response of each GET /latest thread
  writer               \* threaded host: history, the thread that wrote each field last

vars == <<latest_interaction, files, which_node, exchange, served, pc, local, returned, writer>>

seqVars == <<exchange, served>>
concVars == <<pc, local, returned, writer>>
envVars == <<files, which_node>>

\* ------------------------------------------------------------- responses
NoJson == [error |-> Absent, details |-> Absent, message |-> Absent, input |-> Absent,
           response |-> Absent, tts_status |-> Absent, text |-> Absent]

\* jsonify({"error": e}), status
ErrorResp(status, e) == [status |-> status, json |-> [NoJson EXCEPT !.error = e]]

\* A response generated by the framework (abort, unhandled exception): no JSON body.
FrameworkResp(status) == [status |-> status, json |-> NoJson]

NoResp == [status |-> 0, json |-> NoJson]

\* ------------------------------------------------------- request bodies
Bodies ==
  {[kind |-> k, text |-> <<>>] :
      k \in {"malformed", "not_json", "null", "array", "object_no_text", "object_text_number"}}
  \cup {[kind |-> "object", text |-> s] : s \in Strs(MaxText)}

\* request.get_json(): a body that is not valid JSON aborts with 400, a body
\* that is not sent as JSON aborts with 415; otherwise the parsed value, which
\* is None for the JSON literal null and a list for a JSON array.
get_json(body) ==
  CASE body.kind = "malformed" -> [abort |-> 400, data |-> "None"]
    [] body.kind = "not_json" -> [abort |-> 415, data |-> "None"]
    [] body.kind = "null" -> [abort |-> 0, data |-> "None"]
    [] body.kind = "array" -> [abort |-> 0, data |-> "list"]
    [] OTHER -> [abort |-> 0, data |-> "dict"]

\* ------------------------------------------------- language-model outcome
NotCalled == [called |-> FALSE, ok |-> FALSE, text |-> <<>>, msg |-> ""]

LMErrors == {"503 network unreachable", "response.text: no valid Part"}

LMOutcomes ==
  {[called |-> TRUE, ok |-> TRUE, text |-> s, msg |-> ""] : s \in Strs(MaxReply)}
  \cup {[called |-> TRUE, ok |-> FALSE, text |-> <<>>, msg |-> m] : m \in LMErrors}

\* ------------------------------------------------- child-process outcome
NotLaunched == [kind |-> "none", returncode |-> 0, stdout |-> "", stderr |-> "", msg |-> ""]

ProcOutcomes ==
  { [kind |-> "exit", returncode |-> 0, stdout |-> "saved output.mp3", stderr |-> "", msg |-> ""],
    [kind |-> "exit", returncode |-> 1, stdout |-> "calling ElevenLabs", stderr |-> "ElevenLabs 401", msg |-> ""],
    [kind |-> "timeout", returncode |-> 0, stdout |-> "calling ElevenLabs", stderr |-> "still waiting", msg |-> ""],
    [kind |-> "oserror", returncode |-> 0, stdout |-> "", stderr |-> "", msg |-> "Exec format error"] }

\* ------------------------------------------------ POST /gemini, by stage
\* Mutant: only the leading whitespace is removed.
user_text_lstrip_only(body) == lstrip(IF body.kind = "object" THEN body.text ELSE <<>>)

\* data.get("text", "").strip()
user_text_of(body) == strip(IF body.kind = "object" THEN body.text ELSE <<>>)

\* Lines 29-33.  Lines 29-30 are outside the try block: an exception raised
\* there is answered by the framework with a 500 that has no JSON body.
validate(body) ==
  IF get_json(body).abort # 0
    THEN [done |-> TRUE, resp |-> FrameworkResp(get_json(body).abort), user_text |-> <<>>]
  ELSE IF get_json(body).data # "dict"                      \* None.get / list.get: AttributeError
    THEN [done |-> TRUE, resp |-> FrameworkResp(500), user_text |-> <<>>]
  ELSE IF body.kind = "object_text_number"     \* int.strip: AttributeError
    THEN [done |-> TRUE, resp |-> FrameworkResp(500), user_text |-> <<>>]
  ELSE IF user_text_of(body) = <<>>
    THEN [done |-> TRUE, resp |-> ErrorResp(400, Msg("No text provided")), user_text |-> <<>>]
  ELSE [done |-> FALSE, resp |-> NoResp, user_text |-> user_text_of(body)]

\* Mutant: a failed call is retried once.
generate_content_retry(lm) ==
  [raised |-> ~lm.ok, msg |-> lm.msg, gemini_output |-> strip(lm.text),
   calls |-> IF lm.ok THEN 1 ELSE 2]

\* Lines 52-54: one call of model.generate_content, then response.text.strip().
generate_content(lm) ==
  [raised |-> ~lm.ok, msg |-> lm.msg, gemini_output |-> strip(lm.text), calls |-> 1]

\* Lines 137-141: the outer handler answers with str(e).
exception_response(msg) == ErrorResp(500, Msg(msg))

\* Mutant: every path is reported to exist.
path_exists_always(p, fs) == TRUE

\* os.path.exists (lines 66 and 74)
path_exists(p, fs) == p \in fs

\* Lines 66-67.
script_missing_response == ErrorResp(500, <<"tts.js not found at: ", tts_path>>)

\* Mutant: the first candidate is taken without looking at the filesystem.
first_existing_unchecked(cands, fs) == IF cands = <<>> THEN NoNode ELSE Head(cands)

\* Lines 73-76: the first candidate that exists.
RECURSIVE first_existing(_, _)
first_existing(cands, fs) ==
  IF cands = <<>> THEN NoNode
  ELSE IF path_exists(Head(cands), fs) THEN Head(cands)
  ELSE first_existing(Tail(cands), fs)

\* Lines 70-76.
find_node(which, fs) == IF which # NoNode THEN which ELSE first_existing(candidates, fs)

\* Lines 80-81.
node_missing_response == ErrorResp(500, Msg("Node.js not found. Install Node.js."))

\* Mutant: the exit code is not looked at.
run_tts_ignoring_exit(proc) ==
  CASE proc.kind = "timeout" ->
         [failed |-> TRUE, resp |-> ErrorResp(500, Msg("TTS generation timed out"))]
    [] proc.kind = "oserror" ->
         [failed |-> TRUE, resp |-> ErrorResp(500, <<"Failed to run TTS: ", proc.msg>>)]
    [] OTHER -> [failed |-> FALSE, resp |-> NoResp]

\* Mutant: the details field carries stdout, and the timeout answer carries the
\* partial stderr.
run_tts_other_streams(proc) ==
  CASE proc.kind = "exit" /\ proc.returncode # 0 ->
         [failed |-> TRUE,
          resp |-> [status |-> 500,
                    json |-> [NoJson EXCEPT !.error = Msg("TTS generation failed"),
                                            !.details = Msg(proc.stdout)]]]
    [] proc.kind = "timeout" ->
         [failed |-> TRUE,
          resp |-> [status |-> 500,
                    json |-> [NoJson EXCEPT !.error = Msg("TTS generation timed out"),
                                            !.details = Msg(proc.stderr)]]]
    [] proc.kind = "oserror" ->
         [failed |-> TRUE, resp |-> ErrorResp(500, <<"Failed to run TTS: ", proc.msg>>)]
    [] OTHER -> [failed |-> FALSE, resp |-> NoResp]

\* Lines 90-122: subprocess.run with timeout=60 and what each outcome returns.
run_tts(proc) ==
  CASE proc.kind = "exit" /\ proc.returncode # 0 ->
         [failed |-> TRUE,
          resp |-> [status |-> 500,
                    json |-> [NoJson EXCEPT !.error = Msg("TTS generation failed"),
                                            !.details = Msg(proc.stderr)]]]
    [] proc.kind = "timeout" ->
         [failed |-> TRUE, resp |-> ErrorResp(500, Msg("TTS generation timed out"))]
    [] proc.kind = "oserror" ->
         [failed |-> TRUE, resp |-> ErrorResp(500, <<"Failed to run TTS: ", proc.msg>>)]
    [] OTHER -> [failed |-> FALSE, resp |-> NoResp]

\* Lines 130-135.
success_response(user_text, gemini_output) ==
  [status |-> 200,
   json |-> [NoJson EXCEPT !.message = Msg("Received text successfully!"),
                           !.input = user_text,
                           !.response = gemini_output,
                           !.tts_status = Msg("completed")]]

Outcome(ok, resp, user_text, gemini_output, lm, proc, lm_calls, launches) ==
  [ok |-> ok, resp |-> resp, user_text |-> user_text, gemini_output |-> gemini_output,
   lm |-> lm, proc |-> proc, lm_calls |-> lm_calls, launches |-> launches]

\* Lines 29-122: everything the handler does before it touches the cache.
\* lm and proc are recorded only when the handler got as far as using them.
handle(body, lm, proc, fs, which) ==
  LET v == validate(body)
      g == generate_content(lm)
      node_exec == find_node(which, fs)
      r == run_tts(proc)
  IN  IF v.done
        THEN Outcome(FALSE, v.resp, <<>>, <<>>, NotCalled, NotLaunched, 0, 0)
      ELSE IF g.raised
        THEN Outcome(FALSE, exception_response(g.msg), v.user_text, <<>>, lm, NotLaunched, g.calls, 0)
      ELSE IF ~path_exists(tts_path, fs)
        THEN Outcome(FALSE, script_missing_response, v.user_text, g.gemini_output, lm, NotLaunched, g.calls, 0)
      ELSE IF node_exec = NoNode
        THEN Outcome(FALSE, node_missing_response, v.user_text, g.gemini_output, lm, NotLaunched, g.calls, 0)
      ELSE IF r.failed
        THEN Outcome(FALSE, r.resp, v.user_text, g.gemini_output, lm, proc, g.calls, 1)
      ELSE Outcome(TRUE, success_response(v.user_text, g.gemini_output),
                   v.user_text, g.gemini_output, lm, proc, g.calls, 1)

\* Mutant: the input is stored under the wrong key.
save_text_wrong_key(cache, user_text) == [cache EXCEPT !.response = user_text]

\* Line 125 and line 126: two separate assignments to the shared dict.
save_text(cache, user_text) == [cache EXCEPT !.text = user_text]
save_response(cache, gemini_output) == [cache EXCEPT !.response = gemini_output]

\* Mutant: the interaction is saved as soon as the reply text exists, before
\* the script is located and run.
gemini_response_saving_early(body, lm, proc, fs, which, cache) ==
  LET h == handle(body, lm, proc, fs, which)
  IN  [h |-> h,
       cache |-> IF h.lm.ok
                   THEN save_response(save_text(cache, h.user_text), h.gemini_output)
                   ELSE cache]

\* The whole handler when nothing else runs in between (lines 27-141).
gemini_response(body, lm, proc, fs, which, cache) ==
  LET h == handle(body, lm, proc, fs, which)
  IN  [h |-> h,
       cache |-> IF h.ok
                   THEN save_response(save_text(cache, h.user_text), h.gemini_output)
                   ELSE cache]

\* ---------------------------------------------------------- GET /latest
\* Line 147.
latest_missing ==
  [status |-> 404, json |-> [NoJson EXCEPT !.message = Msg("No previous interaction yet.")]]

\* Line 148: jsonify(latest_interaction) reads both fields of the dict.
latest_found(cache) ==
  [status |-> 200, json |-> [NoJson EXCEPT !.text = cache.text, !.response = cache.response]]

\* Lines 144-148.
get_latest(cache) ==
  IF Falsy(cache.response)
    THEN [resp |-> latest_missing, cache |-> cache]
    ELSE [resp |-> latest_found(cache), cache |-> cache]

\* --------------------------------------------------------------- GET /
\* Lines 23-25.
home(cache) == [resp |-> FrameworkResp(200), cache |-> cache]

\* ------------------------------------------- inputs drawn when consulted
LMChoices(body) == IF validate(body).done THEN {NotCalled} ELSE LMOutcomes

ProcChoices(body, lm, fs, which) ==
  IF handle(body, lm, NotLaunched, fs, which).launches = 0 THEN {NotLaunched} ELSE ProcOutcomes

\* ------------------------------------------------------------ the state
EmptyCache == [text |-> None, response |-> None]

NoExchange == [route |-> "none", body |-> [kind |-> "none", text |-> <<>>],
               lm |-> NotCalled, proc |-> NotLaunched, resp |-> NoResp,
               lm_calls |-> 0, launches |-> 0]

NoLocal == [user_text |-> None, gemini_output |-> None]

Threads == 1..NumThreads

\* Line 21, at process start; the filesystem and PATH are whatever they are.
Init ==
  /\ latest_interaction = EmptyCache
  /\ files \in SUBSET AllPaths
  /\ which_node \in {NoNode, PathNode}
  /\ exchange = NoExchange
  /\ served = [input |-> None, response |-> None]
  /\ pc = [p \in Threads |-> "idle"]
  /\ local = [p \in Threads |-> NoLocal]
  /\ returned = [p \in Threads |-> NoResp]
  /\ writer = [text |-> 0, response |-> 0]

\* ------------------------------------- one request at a time (Spec)
\* POST /gemini, handled to completion.
PostGemini ==
  /\ exchange.route = "none"
  /\ \E body \in Bodies :
         \E lm \in LMChoices(body) :
           \E proc \in ProcChoices(body, lm, files, which_node) :
             LET r == gemini_response(body, lm, proc, files, which_node, latest_interaction)
             IN  /\ latest_interaction' = r.cache
                 /\ exchange' = [route |-> "gemini", body |-> body, lm |-> r.h.lm,
                                 proc |-> r.h.proc, resp |-> r.h.resp,
                                 lm_calls |-> r.h.lm_calls, launches |-> r.h.launches]
                 /\ served' = IF r.h.resp.status = 200
                                THEN [input |-> r.h.resp.json.input,
                                      response |-> r.h.resp.json.response]
                                ELSE served
  /\ UNCHANGED <<envVars, concVars>>

\* GET /latest, handled to completion.
GetLatest ==
  /\ exchange.route = "none"
  /\ LET r == get_latest(latest_interaction)
     IN  /\ latest_interaction' = r.cache
         /\ exchange' = [NoExchange EXCEPT !.route = "latest", !.resp = r.resp]
  /\ UNCHANGED <<served, envVars, concVars>>

\* GET /, handled to completion.
Home ==
  /\ exchange.route = "none"
  /\ LET r == home(latest_interaction)
     IN  /\ latest_interaction' = r.cache
         /\ exchange' = [NoExchange EXCEPT !.route = "home", !.resp = r.resp]
  /\ UNCHANGED <<served, envVars, concVars>>

\* The client has read the response; the next request can be sent.
Close ==
  /\ exchange.route # "none"
  /\ exchange' = NoExchange
  /\ UNCHANGED <<latest_interaction, served, envVars, concVars>>

\* Between requests a file appears or disappears.
FileChange ==
  /\ exchange.route = "none"
  /\ \E f \in AllPaths : files' = IF f \in files THEN files \ {f} ELSE files \cup {f}
  /\ UNCHANGED <<latest_interaction, which_node, seqVars, concVars>>

\* Between requests node is added to or removed from PATH.
PathChange ==
  /\ exchange.route = "none"
  /\ which_node' = IF which_node = NoNode THEN PathNode ELSE NoNode
  /\ UNCHANGED <<latest_interaction, files, seqVars, concVars>>

Next == PostGemini \/ GetLatest \/ Home \/ Close \/ FileChange \/ PathChange

Spec == Init /\ [][Next]_vars

\* ------------------------------- threaded host (SpecConc): app.run serves
\* each request on its own thread; every thread handles one request.  The
\* steps are the places where a handler reads or writes latest_interaction.

\* A working installation: the script and node are where they are looked for.
InitConc ==
  /\ latest_interaction = EmptyCache
  /\ files = AllPaths
  /\ which_node = PathNode
  /\ exchange = NoExchange
  /\ served = [input |-> None, response |-> None]
  /\ pc = [p \in Threads |-> "idle"]
  /\ local = [p \in Threads |-> NoLocal]
  /\ returned = [p \in Threads |-> NoResp]
  /\ writer = [text |-> 0, response |-> 0]

\* POST /gemini, lines 29-122: up to the point where the cache is written.
T_Post(p) ==
  /\ pc[p] = "idle"
  /\ \E body \in Bodies :
       \E lm \in LMChoices(body) :
         \E proc \in ProcChoices(body, lm, files, which_node) :
           LET h == handle(body, lm, proc, files, which_node)
           IN  IF h.ok
                 THEN /\ pc' = [pc EXCEPT ![p] = "save_text"]
                      /\ local' = [local EXCEPT ![p] = [user_text |-> h.user_text,
                                                        gemini_output |-> h.gemini_output]]
                 ELSE /\ pc' = [pc EXCEPT ![p] = "done"]
                      /\ local' = local
  /\ UNCHANGED <<latest_interaction, returned, writer, envVars, seqVars>>

\* Line 125.
T_SaveText(p) ==
  /\ pc[p] = "save_text"
  /\ latest_interaction' = save_text(latest_interaction, local[p].user_text)
  /\ writer' = [writer EXCEPT !.text = p]
  /\ pc' = [pc EXCEPT ![p] = "save_response"]
  /\ UNCHANGED <<local, returned, envVars, seqVars>>

\* Lines 126-135.
T_SaveResponse(p) ==
  /\ pc[p] = "save_response"
  /\ latest_interaction' = save_response(latest_interaction, local[p].gemini_output)
  /\ writer' = [writer EXCEPT !.response = p]
  /\ pc' = [pc EXCEPT ![p] = "done"]
  /\ UNCHANGED <<local, returned, envVars, seqVars>>

\* GET /latest, lines 146-147.
T_LatestCheck(p) ==
  /\ pc[p] = "idle"
  /\ IF Falsy(latest_interaction.response)
       THEN /\ pc' = [pc EXCEPT ![p] = "done"]
            /\ returned' = [returned EXCEPT ![p] = latest_missing]
       ELSE /\ pc' = [pc EXCEPT ![p] = "latest_read"]
            /\ returned' = returned
  /\ UNCHANGED <<latest_interaction, local, writer, envVars, seqVars>>

\* GET /latest, line 148.
T_LatestReturn(p) ==
  /\ pc[p] = "latest_read"
  /\ pc' = [pc EXCEPT ![p] = "done"]
  /\ returned' = [returned EXCEPT ![p] = latest_found(latest_interaction)]
  /\ UNCHANGED <<latest_interaction, local, writer, envVars, seqVars>>

NextConc ==
  \E p \in Threads :
    T_Post(p) \/ T_SaveText(p) \/ T_SaveResponse(p) \/ T_LatestCheck(p) \/ T_LatestReturn(p)

SpecConc == InitConc /\ [][NextConc]_vars

\* ======================================================== properties
IsPost == exchange.route = "gemini"
Status == exchange.resp.status
Json == exchange.resp.json

\* s consists of whitespace only (the empty string included).
Blank(s) == \A i \in 1..Len(s) : s[i] = " "

\* t is s without its leading and trailing whitespace, stated without strip.
IsTrimOf(t, s) ==
  /\ t # <<>> => (t[1] # " " /\ t[Len(t)] # " ")
  /\ \E i \in 0..Len(s) :
       /\ i + Len(t) <= Len(s)
       /\ SubSeq(s, i + 1, i + Len(t)) = t
       /\ \A k \in 1..Len(s) : (k <= i \/ k > i + Len(t)) => s[k] = " "

\* The message m occurs in the field f of the response body.
Names(f, m) == \E i \in 1..Len(f) : f[i] = m

HasTextField == exchange.body.kind = "object"

NodeNowhere == which_node = NoNode /\ \A i \in 1..Len(candidates) : candidates[i] \notin files

SynthesisFailed ==
  \/ exchange.proc.kind = "timeout"
  \/ exchange.proc.kind = "oserror"
  \/ exchange.proc.kind = "exit" /\ exchange.proc.returncode # 0

\* C1 (as claimed): GET /latest answers 200 with the input and the response of
\* the most recent POST /gemini that was answered 200, and 404 with the
\* "No previous interaction yet." message when there was none.
C1_LatestReturnsLastSuccess ==
  exchange.route = "latest" =>
    IF served.response = None
      THEN Status = 404 /\ Json.message = Msg("No previous interaction yet.")
      ELSE Status = 200 /\ Json.text = served.input /\ Json.response = served.response

\* C2 (as claimed): a POST /gemini whose body has an empty or whitespace-only
\* text field, or no text field at all (no JSON body, a JSON value that is
\* not an object, an object without the key), is answered with a 4xx status.
C2_MissingTextIs4xx ==
  (IsPost /\ exchange.body.kind # "object_text_number"
          /\ (HasTextField => Blank(exchange.body.text)))
    => Status \in 400..499

\* C3: when the language model succeeded and speech synthesis failed (non-zero
\* exit, timeout, launch error) the answer is a 500 with an error field and
\* none of the fields of the success body.
C3_SynthesisFailureIsError ==
  (IsPost /\ exchange.lm.ok /\ SynthesisFailed) =>
    /\ Status = 500
    /\ Json.error # Absent
    /\ Json.message = Absent /\ Json.input = Absent
    /\ Json.response = Absent /\ Json.tts_status = Absent

C3_Witness ==
  /\ IsPost /\ exchange.lm.ok /\ exchange.lm.text = <<"a">>
  /\ exchange.proc.kind = "exit" /\ exchange.proc.returncode # 0
  /\ Status = 500

\* C4 (as claimed): a POST /gemini answered 200 carries an input field equal
\* to the text the client submitted.
C4_InputEqualsSubmitted == (IsPost /\ Status = 200) => Json.input = exchange.body.text

\* C4 (amended): a POST /gemini answered 200 carries an input field equal to
\* the submitted text with its leading and trailing whitespace removed.
C4_InputIsTrimmedText == (IsPost /\ Status = 200) => IsTrimOf(Json.input, exchange.body.text)

C4_Witness ==
  /\ IsPost /\ Status = 200
  /\ exchange.body.text = <<" ", "a">>
  /\ Json.input = <<"a">>

\* C5 (as claimed): when tts.js does not exist, a POST /gemini with non-empty
\* text is answered with a 5xx whose error message names the script path.
C5_ScriptMissingAlwaysNamed ==
  (IsPost /\ HasTextField /\ exchange.body.text # <<>> /\ tts_path \notin files) =>
    (Status \in 500..599 /\ Names(Json.error, tts_path))

\* C5 (amended): when tts.js does not exist, a POST /gemini whose text is not
\* blank and whose language-model call succeeded is answered with a 500 whose
\* error message names the script path.
C5_ScriptMissingNamed ==
  (IsPost /\ HasTextField /\ ~Blank(exchange.body.text) /\ exchange.lm.ok
          /\ tts_path \notin files) =>
    (Status = 500 /\ Names(Json.error, tts_path))

C5_Witness ==
  /\ IsPost /\ HasTextField /\ ~Blank(exchange.body.text) /\ exchange.lm.ok
  /\ tts_path \notin files /\ ~NodeNowhere
  /\ Status = 500

\* C6 (as claimed): when node is neither on PATH nor at a fallback location, a
\* POST /gemini with non-empty text is answered with a 5xx whose error message
\* names Node.js.
C6_NodeMissingAlwaysNamed ==
  (IsPost /\ HasTextField /\ exchange.body.text # <<>> /\ NodeNowhere) =>
    (Status \in 500..599 /\ Names(Json.error, "Node.js not found. Install Node.js."))

\* C6 (amended): when node is neither on PATH nor at a fallback location, a
\* POST /gemini whose text is not blank, whose language-model call succeeded
\* and whose script file exists is answered with a 500 whose error message
\* names Node.js.
C6_NodeMissingNamed ==
  (IsPost /\ HasTextField /\ ~Blank(exchange.body.text) /\ exchange.lm.ok
          /\ tts_path \in files /\ NodeNowhere) =>
    (Status = 500 /\ Names(Json.error, "Node.js not found. Install Node.js."))

C6_Witness ==
  /\ IsPost /\ HasTextField /\ ~Blank(exchange.body.text) /\ exchange.lm.ok
  /\ tts_path \in files /\ NodeNowhere
  /\ Status = 500

\* C7: when the language-model call fails, the answer is a 500 carrying the
\* failure message, the model was called once and no process was launched.
C7_ModelFailure ==
  (IsPost /\ exchange.lm.called /\ ~exchange.lm.ok) =>
    /\ Status = 500
    /\ Json.error = Msg(exchange.lm.msg)
    /\ exchange.lm_calls = 1
    /\ exchange.launches = 0 /\ exchange.proc = NotLaunched

C7_Witness ==
  /\ IsPost /\ exchange.lm.called /\ ~exchange.lm.ok
  /\ tts_path \in files /\ ~NodeNowhere
  /\ Status = 500

\* C8 (as claimed): on timeout and on non-zero exit alike the failure response
\* includes the output captured from the process, and the process is launched
\* at most once.
C8_DiagnosticsAlwaysIncluded ==
  (IsPost /\ exchange.proc.kind \in {"timeout", "exit"} /\ SynthesisFailed) =>
    /\ \/ Names(Json.details, exchange.proc.stderr) \/ Names(Json.details, exchange.proc.stdout)
       \/ Names(Json.error, exchange.proc.stderr) \/ Names(Json.error, exchange.proc.stdout)
    /\ exchange.launches <= 1

\* C8 (amended): on non-zero exit the failure response carries the captured
\* stderr in its details field; on timeout it carries only the fixed error
\* message and no captured output; the process is launched at most once.
C8_DiagnosticsOnExitOnly ==
  IsPost =>
    /\ (exchange.proc.kind = "exit" /\ exchange.proc.returncode # 0) =>
         (Status = 500 /\ Json.details = Msg(exchange.proc.stderr))
    /\ exchange.proc.kind = "timeout" =>
         (Status = 500 /\ Json.details = Absent
                       /\ Json.error = Msg("TTS generation timed out"))
    /\ exchange.launches <= 1

C8_Witness ==
  /\ IsPost /\ exchange.proc.kind = "exit" /\ exchange.proc.returncode # 0
  /\ exchange.launches = 1
  /\ Json.details = Msg("ElevenLabs 401")

\* C9: the cache changes only in a POST /gemini that is answered 200; every
\* other request leaves both fields as they were.
C9_CacheFrame ==
  [][latest_interaction' # latest_interaction =>
       (exchange'.route = "gemini" /\ exchange'.resp.status = 200)]_vars

C9_Witness ==
  /\ IsPost /\ Status = 500 /\ exchange.lm.ok /\ SynthesisFailed
  /\ latest_interaction.response = <<"a">>

\* ------------------------------------------------- threaded host
AllDone == \A p \in Threads : pc[p] = "done"

\* The thread has executed line 125 / line 126.
WroteText(p) == local[p] # NoLocal /\ pc[p] \in {"save_response", "done"}
WroteResponse(p) == local[p] # NoLocal /\ pc[p] = "done"

\* The (input, response) pair of a request that gets past synthesis.
PairOf(p) == [text |-> local[p].user_text, response |-> local[p].gemini_output]
Pairs == {PairOf(p) : p \in {q \in Threads : local[q] # NoLocal}}

\* What a GET /latest answered with 200 returned.
LatestAnswers ==
  {[text |-> returned[p].json.text, response |-> returned[p].json.response] :
     p \in {q \in Threads : returned[q].status = 200}}

\* C10 (as claimed): with concurrent requests the cache, and every pair that
\* GET /latest returns, is empty or the pair of one single successful request,
\* and once all requests have finished it is the pair of the last writer.
C10_PairOfOneRequest ==
  /\ latest_interaction = EmptyCache \/ latest_interaction \in Pairs
  /\ LatestAnswers \subseteq Pairs
  /\ (AllDone /\ writer.response # 0) => latest_interaction = PairOf(writer.response)

\* C10 (amended): with concurrent requests each field of the cache is at every
\* moment empty or the value that the request which wrote that field last put
\* there (the text field by line 125, the response field by line 126), and
\* each field that GET /latest returns is empty or a value some request wrote
\* to that field; the two fields may come from different requests.
C10_FieldOfLastWriter ==
  /\ latest_interaction.text =
       IF writer.text = 0 THEN None ELSE local[writer.text].user_text
  /\ latest_interaction.response =
       IF writer.response = 0 THEN None ELSE local[writer.response].gemini_output
  /\ writer.text # 0 => WroteText(writer.text)
  /\ writer.response # 0 => WroteResponse(writer.response)
  /\ \A a \in LatestAnswers :
       /\ a.text \in {None} \cup {local[q].user_text : q \in {r \in Threads : WroteText(r)}}
       /\ a.response \in {None} \cup {local[q].gemini_output : q \in {r \in Threads : WroteResponse(r)}}

\* All requests have finished and the cache combines two requests.
C10_Witness ==
  /\ AllDone
  /\ writer.text # 0 /\ writer.response # 0 /\ writer.text # writer.response
  /\ latest_interaction \notin Pairs
  /\ latest_interaction.text = local[writer.text].user_text
  /\ latest_interaction.response = local[writer.response].gemini_output

====
